---------------------------- MODULE Spec2Model ----------------------------
(***************************************************************************)
(* Model of the Fast Start extension (src/extension_logic.py): the three   *)
(* render handlers and the rejected-job flag they share, the suffix        *)
(* sanitization, the prediction of the file name the host writes, the      *)
(* frame-range formatter, the search for the rendered file and the         *)
(* relocation into the companion file, in a job and called on its own.     *)
(*                                                                         *)
(* A string is a sequence of characters; a character is a one-element     *)
(* TLA+ string.  Two control characters are written with two letters:     *)
(* "^A" is U+0001 (a control character that is not whitespace) and "\t"   *)
(* is U+0009 (a control character that str.strip() treats as whitespace). *)
(* Paths are POSIX paths.                                                  *)
(***************************************************************************)
EXTENDS Integers, Sequences, FiniteSets, TLC

(***************************************************************************)
(* Characters and Python's string primitives                               *)
(***************************************************************************)

UpperChars == <<"A","B","C","D","E","F","G","H","I","J","K","L","M",
                "N","O","P","Q","R","S","T","U","V","W","X","Y","Z">>

LowerChars == <<"a","b","c","d","e","f","g","h","i","j","k","l","m",
                "n","o","p","q","r","s","t","u","v","w","x","y","z">>

\* str.lower() on one character.
lower_char(c) ==
    IF \E i \in 1..Len(UpperChars) : UpperChars[i] = c
    THEN LowerChars[CHOOSE i \in 1..Len(UpperChars) : UpperChars[i] = c]
    ELSE c

\* str.lower().
lower(s) == [i \in 1..Len(s) |-> lower_char(s[i])]

\* The characters of the pattern [<>:"/\\|?*].
reserved_chars == {"<", ">", ":", "\"", "/", "\\", "|", "?", "*"}

\* The characters of the pattern [\x00-\x1F] (those the model's alphabet has).
control_chars == {"^A", "\t"}

\* The characters str.strip() removes (those the model's alphabet has).
whitespace_chars == {" ", "\t"}

\* str.rfind(c): the 0-based index of the last c, or -1.
rfind(s, c) ==
    IF \E i \in 1..Len(s) : s[i] = c
    THEN (CHOOSE i \in 1..Len(s) : s[i] = c /\ \A j \in (i+1)..Len(s) : s[j] # c) - 1
    ELSE -1

\* s[:n] and s[n:] for 0 <= n <= len(s).
slice_to(s, n) == SubSeq(s, 1, n)

slice_from(s, n) == SubSeq(s, n + 1, Len(s))

\* os.path.splitext on a basename (no separator in it): the extension starts
\* at the last '.', unless only '.' characters precede that '.'.
splitext(p) ==
    LET dotIndex == rfind(p, ".")
        filenameIndex == 0
    IN  IF dotIndex > filenameIndex
           /\ \E k \in filenameIndex..(dotIndex - 1) : p[k + 1] # "."
        THEN <<slice_to(p, dotIndex), slice_from(p, dotIndex)>>
        ELSE <<p, <<>>>>

\* The end (exclusive, 0-based) of the greedy match of #+ that starts at pos.
hash_run_end(s, pos) ==
    CHOOSE e \in (pos + 1)..Len(s) :
        /\ \A k \in (pos + 1)..e : s[k] = "#"
        /\ (e = Len(s) \/ s[e + 1] # "#")

\* re.finditer(r'(#+)', s) from position pos on: the matches, left to right,
\* each with its start() and end().
RECURSIVE finditer_hashes(_, _)
finditer_hashes(s, pos) ==
    IF pos >= Len(s) THEN <<>>
    ELSE IF s[pos + 1] # "#" THEN finditer_hashes(s, pos + 1)
    ELSE LET e == hash_run_end(s, pos)
         IN  <<[start |-> pos, end |-> e]>> \o finditer_hashes(s, e)

\* The value of last_hash_match when no match was found.
None == [start |-> -1, end |-> -1]

\* Mutation of last_match_of: the loop stops at the first match.
first_match_of(matches) ==
    IF matches = <<>> THEN None ELSE matches[1]

\* last_hash_match = None; for match in re.finditer(...): last_hash_match = match
last_match_of(matches) ==
    IF matches = <<>> THEN None ELSE matches[Len(matches)]

last_hash_match_in(s) == last_match_of(finditer_hashes(s, 0))

(***************************************************************************)
(* _construct_video_filename                                               *)
(***************************************************************************)

DigitChars == <<"0","1","2","3","4","5","6","7","8","9">>

\* str(n) for n >= 0.
RECURSIVE decimal_digits(_)
decimal_digits(n) ==
    IF n < 10 THEN <<DigitChars[n + 1]>>
    ELSE decimal_digits(n \div 10) \o <<DigitChars[(n % 10) + 1]>>

RECURSIVE zeros(_)
zeros(k) == IF k <= 0 THEN <<>> ELSE <<"0">> \o zeros(k - 1)

\* Mutation of format_zero_padded: str(n), the width ignored.
format_unpadded(n, width) ==
    (IF n < 0 THEN <<"-">> ELSE <<>>) \o decimal_digits(IF n < 0 THEN -n ELSE n)

\* f"{n:0{width}d}": the sign, then zeros up to the width, then the digits.
format_zero_padded(n, width) ==
    LET sign   == IF n < 0 THEN <<"-">> ELSE <<>>
        digits == decimal_digits(IF n < 0 THEN -n ELSE n)
    IN  sign \o zeros(width - Len(sign) - Len(digits)) \o digits

frame_str_component_of(start_frame, end_frame, frame_padding_digits) ==
    IF frame_padding_digits > 0
    THEN format_zero_padded(start_frame, frame_padding_digits) \o <<"-">>
            \o format_zero_padded(end_frame, frame_padding_digits)
    ELSE <<>>

construct_video_filename(base_name_part, suffix_after_frame_numbers, start_frame, end_frame, frame_padding_digits, output_extension_with_dot) ==
    base_name_part
        \o frame_str_component_of(start_frame, end_frame, frame_padding_digits)
        \o suffix_after_frame_numbers
        \o output_extension_with_dot

(***************************************************************************)
(* post_render_faststart_handler: the suffix                               *)
(***************************************************************************)

default_suffix_value == <<"-","f","a","s","t","s","t","a","r","t">>

RECURSIVE lstrip(_)
lstrip(s) ==
    IF s # <<>> /\ Head(s) \in whitespace_chars THEN lstrip(Tail(s)) ELSE s

RECURSIVE rstrip(_)
rstrip(s) ==
    IF s # <<>> /\ s[Len(s)] \in whitespace_chars
    THEN rstrip(SubSeq(s, 1, Len(s) - 1))
    ELSE s

\* str.strip().
strip(s) == rstrip(lstrip(s))

\* str.replace("..", ""): the non-overlapping occurrences, left to right.
RECURSIVE replace_dotdot(_)
replace_dotdot(s) ==
    IF Len(s) < 2 THEN s
    ELSE IF s[1] = "." /\ s[2] = "." THEN replace_dotdot(SubSeq(s, 3, Len(s)))
    ELSE <<s[1]>> \o replace_dotdot(Tail(s))

\* re.sub(r'[<>:"/\\|?*]', '_', s).
sub_reserved(s) ==
    [i \in 1..Len(s) |-> IF s[i] \in reserved_chars THEN "_" ELSE s[i]]

is_not_control(c) == c \notin control_chars

\* re.sub(r'[\x00-\x1F]', '', s).
sub_control(s) == SelectSeq(s, is_not_control)

\* The add-on preferences as the handler finds them: found is FALSE when the
\* lookup raised KeyError or the property is missing, is_none is TRUE when the
\* property holds None.
PrefsMissing == [found |-> FALSE, is_none |-> FALSE, faststart_suffix_prop |-> <<>>]

PrefsNone == [found |-> TRUE, is_none |-> TRUE, faststart_suffix_prop |-> <<>>]

PrefsWith(s) == [found |-> TRUE, is_none |-> FALSE, faststart_suffix_prop |-> s]

\* custom_suffix before the sanitization.
suffix_from_prefs(prefs) ==
    IF prefs.found
    THEN LET user_suffix_stripped ==
                 IF ~prefs.is_none THEN strip(prefs.faststart_suffix_prop) ELSE <<>>
         IN  IF user_suffix_stripped # <<>> THEN user_suffix_stripped
             ELSE default_suffix_value
    ELSE default_suffix_value

\* Mutation of sanitize_suffix: no fallback to the default suffix.
sanitize_suffix_without_fallback(suffix_before_final_sanitize) ==
    sub_control(sub_reserved(replace_dotdot(suffix_before_final_sanitize)))

\* "Sanitize the suffix" ... "End Sanitization".
sanitize_suffix(suffix_before_final_sanitize) ==
    LET no_dotdot   == replace_dotdot(suffix_before_final_sanitize)
        no_reserved == sub_reserved(no_dotdot)
        no_control  == sub_control(no_reserved)
    IN  IF strip(no_control) = <<>> THEN default_suffix_value ELSE no_control

\* The suffix the handler uses for the preferences it finds.
custom_suffix_of(prefs) == sanitize_suffix(suffix_from_prefs(prefs))

(***************************************************************************)
(* post_render_faststart_handler: the predicted file name                  *)
(***************************************************************************)

\* final_output_extension when "File Extension" is checked.
container_extension(container_type) ==
    IF container_type = "MPEG4" THEN <<".","m","p","4">> ELSE <<".","m","o","v">>

\* What the handler has when it calls _construct_video_filename; scanned holds
\* the string the '#' scan ran over (none in Scenario A).
Plan(base, padding, suffix, ext, scanned, match) ==
    [base_for_construction |-> base, frame_padding |-> padding,
     suffix_after_frames |-> suffix, final_output_extension |-> ext,
     scanned |-> scanned, last_hash_match |-> match]

\* if last_hash_match: ... else: ... of Scenario B.
scenario_b(user_setting_basename, ext) ==
    LET effective_stem_for_hashes == user_setting_basename
        last_hash_match == last_hash_match_in(effective_stem_for_hashes)
    IN  IF last_hash_match # None
        THEN Plan(slice_to(effective_stem_for_hashes, last_hash_match.start),
                  last_hash_match.end - last_hash_match.start,
                  slice_from(effective_stem_for_hashes, last_hash_match.end),
                  ext, <<effective_stem_for_hashes>>, last_hash_match)
        ELSE Plan(effective_stem_for_hashes, 4, <<>>, ext,
                  <<effective_stem_for_hashes>>, last_hash_match)

\* Mutation of scenario_c: without a '#', the base is the name part only.
scenario_c_drops_wrong_ext(user_setting_basename, user_name_part, user_ext_part, ext) ==
    LET last_hash_match == last_hash_match_in(user_name_part)
    IN  IF last_hash_match # None
        THEN Plan(slice_to(user_name_part, last_hash_match.start),
                  last_hash_match.end - last_hash_match.start,
                  slice_from(user_name_part, last_hash_match.end) \o user_ext_part,
                  ext, <<user_name_part>>, last_hash_match)
        ELSE Plan(user_name_part, 4, <<>>, ext, <<user_name_part>>, last_hash_match)

\* Mutation of scenario_c: the wrong extension is not put back after the
\* frame token.
scenario_c_loses_wrong_ext(user_setting_basename, user_name_part, user_ext_part, ext) ==
    LET last_hash_match == last_hash_match_in(user_name_part)
    IN  IF last_hash_match # None
        THEN Plan(slice_to(user_name_part, last_hash_match.start),
                  last_hash_match.end - last_hash_match.start,
                  slice_from(user_name_part, last_hash_match.end),
                  ext, <<user_name_part>>, last_hash_match)
        ELSE Plan(user_setting_basename, 4, <<>>, ext, <<user_name_part>>,
                  last_hash_match)

\* if last_hash_match: ... else: ... of Scenario C.
scenario_c(user_setting_basename, user_name_part, user_ext_part, ext) ==
    LET stem_candidate_for_hashes == user_name_part
        last_hash_match == last_hash_match_in(stem_candidate_for_hashes)
    IN  IF last_hash_match # None
        THEN Plan(slice_to(stem_candidate_for_hashes, last_hash_match.start),
                  last_hash_match.end - last_hash_match.start,
                  slice_from(stem_candidate_for_hashes, last_hash_match.end)
                      \o user_ext_part,
                  ext, <<stem_candidate_for_hashes>>, last_hash_match)
        ELSE Plan(user_setting_basename, 4, <<>>, ext,
                  <<stem_candidate_for_hashes>>, last_hash_match)

\* The branch "if use_blender_file_extensions_setting:".
plan_file_extension_checked(user_setting_basename, container_type) ==
    LET parts == splitext(user_setting_basename)
        user_name_part == parts[1]
        user_ext_part == parts[2]
        final_output_extension == container_extension(container_type)
        user_ext_part_lower == lower(user_ext_part)
        was_user_ext_provided == user_ext_part_lower # <<>>
        is_user_ext_correct == (user_ext_part_lower = final_output_extension)
    IN  IF was_user_ext_provided /\ is_user_ext_correct
        THEN Plan(user_name_part, 0, <<>>, final_output_extension, <<>>, None)
        ELSE IF ~was_user_ext_provided
        THEN scenario_b(user_setting_basename, final_output_extension)
        ELSE scenario_c(user_setting_basename, user_name_part, user_ext_part,
                        final_output_extension)

\* The unchecked branch with its extension and its width without a '#' given.
unchecked_plan_with(user_setting_basename, final_output_extension, padding_without_hash) ==
    LET parts == splitext(user_setting_basename)
        stem == IF parts[2] # <<>> THEN parts[1] ELSE user_setting_basename
        last_hash_match == last_hash_match_in(stem)
    IN  IF last_hash_match # None
        THEN Plan(slice_to(stem, last_hash_match.start),
                  last_hash_match.end - last_hash_match.start,
                  slice_from(stem, last_hash_match.end),
                  final_output_extension, <<stem>>, last_hash_match)
        ELSE Plan(stem, padding_without_hash, <<>>, final_output_extension,
                  <<stem>>, last_hash_match)

\* Mutation of plan_file_extension_unchecked: the user's extension lowercased.
plan_unchecked_lowercases_ext(user_setting_basename) ==
    unchecked_plan_with(user_setting_basename,
                        lower(splitext(user_setting_basename)[2]), 0)

\* Mutation of plan_file_extension_unchecked: four digits without a '#', as in
\* the checked branch.
plan_unchecked_pads_without_hash(user_setting_basename) ==
    unchecked_plan_with(user_setting_basename,
                        splitext(user_setting_basename)[2], 4)

\* The branch "else:" ("File Extension" unchecked).
plan_file_extension_unchecked(user_setting_basename) ==
    LET parts == splitext(user_setting_basename)
        user_name_part == parts[1]
        user_ext_part == parts[2]
        final_output_extension == user_ext_part
        stem_for_hash_processing ==
            IF user_ext_part # <<>> THEN user_name_part ELSE user_setting_basename
        last_hash_match == last_hash_match_in(stem_for_hash_processing)
    IN  IF last_hash_match # None
        THEN Plan(slice_to(stem_for_hash_processing, last_hash_match.start),
                  last_hash_match.end - last_hash_match.start,
                  slice_from(stem_for_hash_processing, last_hash_match.end),
                  final_output_extension, <<stem_for_hash_processing>>,
                  last_hash_match)
        ELSE Plan(stem_for_hash_processing, 0, <<>>, final_output_extension,
                  <<stem_for_hash_processing>>, last_hash_match)

naming_plan(user_setting_basename, use_file_extension, container_type) ==
    IF use_file_extension
    THEN plan_file_extension_checked(user_setting_basename, container_type)
    ELSE plan_file_extension_unchecked(user_setting_basename)

predicted_filename_of(plan, start_frame, end_frame) ==
    construct_video_filename(plan.base_for_construction, plan.suffix_after_frames,
                             start_frame, end_frame, plan.frame_padding,
                             plan.final_output_extension)

(***************************************************************************)
(* Paths (POSIX os.path and pathlib)                                       *)
(***************************************************************************)

\* str.rstrip('/').
RECURSIVE rstrip_sep(_)
rstrip_sep(s) ==
    IF s # <<>> /\ s[Len(s)] = "/" THEN rstrip_sep(SubSeq(s, 1, Len(s) - 1)) ELSE s

\* os.path.split: the head up to the last '/', without its trailing
\* separators unless it consists of separators only, and the tail after it.
os_path_split(p) ==
    LET i == rfind(p, "/") + 1
        head == slice_to(p, i)
        tail == slice_from(p, i)
    IN  <<IF head # <<>> /\ (\E k \in 1..Len(head) : head[k] # "/")
          THEN rstrip_sep(head) ELSE head,
          tail>>

os_path_dirname(p) == os_path_split(p)[1]

os_path_basename(p) == os_path_split(p)[2]

\* os.path.join of two components.
os_path_join(a, b) ==
    IF b # <<>> /\ b[1] = "/" THEN b
    ELSE IF a = <<>> \/ a[Len(a)] = "/" THEN a \o b
    ELSE a \o <<"/">> \o b

\* pathlib's Path(p).stem for a path that names a file: the final component
\* without its last suffix; a leading or a trailing '.' starts no suffix.
path_stem(p) ==
    LET name == os_path_basename(p)
        i == rfind(name, ".")
    IN  IF 0 < i /\ i < Len(name) - 1 THEN slice_to(name, i) ELSE name

\* Mutation of filepath_is_blank: only the empty string counts as blank.
filepath_is_empty_string(original_filepath_setting) == original_filepath_setting = <<>>

\* "not original_filepath_setting.strip()".
filepath_is_blank(original_filepath_setting) == strip(original_filepath_setting) = <<>>

(***************************************************************************)
(* State                                                                   *)
(***************************************************************************)

VARIABLES
    render_job_cancelled_by_addon, \* _render_job_cancelled_by_addon
    scenes,                        \* the scenes a render job can be started on
    use_faststart_prop,            \* scene.fast_start_settings_prop.use_faststart_prop
    file_format,                   \* scene.render.image_settings.file_format
    container_type,                \* scene.render.ffmpeg.format
    use_autosplit,                 \* scene.render.ffmpeg.use_autosplit
    use_file_extension,            \* scene.render.use_file_extension
    filepath,                      \* scene.render.filepath
    start_frame,                   \* scene.frame_start
    end_frame,                     \* scene.frame_end
    addon_prefs,                   \* the add-on preferences
    blend_filepath,                \* bpy.data.filepath, empty while unsaved
    dirs,                          \* the directories on disk
    file_size,                     \* the regular files on disk, each with its size
    cancelled_at_job_start,        \* the flag as the job's render_init found it
    init_result,                   \* on_render_init_faststart of this job:
                                   \* "not_called", "returned" or "raised"
    pre_render_result,             \* the job's last pre-render check likewise
    handler_state,                 \* the job's post-render handler: "pending", then
                                   \* "skipped", "not_found", "failed", "succeeded"
    custom_suffix,                 \* the handler's sanitized suffix
    user_setting_basename,         \* the name the handler feeds to the naming rules
    plan,                          \* the handler's construction parameters
    frame_str_component,           \* the frame token of the predicted name
    predicted_blender_filename,    \* the name the handler expects on disk
    original_rendered_file,        \* the file the handler located, empty if none
    fast_start_output_path,        \* the companion path, empty if none was derived
    checked_paths,                 \* the paths the job's handler looked up, in order
    process_calls,                 \* the job's calls of qtfaststart's process
    removed_paths,                 \* the paths the job's handler removed
    input_path_str,                \* a direct call of run_qtfaststart_processing:
    output_path_str,               \* its two arguments, empty before the call
    import_failure,                \* how the import of the library failed, or "None"
    process_raised,                \* what process raised, or "None"
    processing_result              \* "not_called", then "True" or "False" as
                                   \* returned, or "raised"

\* The scene handed to the handlers of the job.
scene_settings == <<use_faststart_prop, file_format, container_type, use_autosplit,
                    use_file_extension, filepath, start_frame, end_frame>>

inputs == <<scenes, scene_settings, addon_prefs, blend_filepath, dirs>>

\* The locals of post_render_faststart_handler.
outputs == <<custom_suffix, user_setting_basename, plan, frame_str_component,
             predicted_blender_filename, original_rendered_file,
             fast_start_output_path>>

\* What the handlers of the job did to their surroundings.
effects == <<checked_paths, process_calls, removed_paths>>

results == <<cancelled_at_job_start, init_result, pre_render_result, handler_state>>

\* A call of run_qtfaststart_processing from outside the handlers; the
\* handler's own call is told by original_rendered_file,
\* fast_start_output_path, process_calls and handler_state.
direct_call == <<input_path_str, output_path_str, import_failure, process_raised,
                 processing_result>>

vars == <<render_job_cancelled_by_addon, inputs, file_size, results, outputs, effects,
          direct_call>>

\* The scene of the job as a record of its settings.
SceneRecord ==
    [use_faststart_prop |-> use_faststart_prop, file_format |-> file_format,
     container_type |-> container_type, use_autosplit |-> use_autosplit,
     use_file_extension |-> use_file_extension, filepath |-> filepath,
     start_frame |-> start_frame, end_frame |-> end_frame]

(***************************************************************************)
(* The file system and the handlers' steps on it                           *)
(***************************************************************************)

\* os.path.isdir: a directory on disk, also when named with a trailing
\* separator or through its "." entry; ".." of a directory is a directory.
os_path_isdir(p) ==
    \/ p \in dirs
    \/ /\ os_path_basename(p) \in {<<>>, <<".">>, <<".", ".">>}
       /\ os_path_dirname(p) \in dirs

os_path_exists(p) == os_path_isdir(p) \/ p \in DOMAIN file_size

\* "os.path.exists(p) and not os.path.isdir(p)".
is_existing_file(p) == os_path_exists(p) /\ ~os_path_isdir(p)

\* Mutation of fast_start_applies: the scene's Fast Start option is not read.
fast_start_applies_when_disabled ==
    /\ file_format = "FFMPEG" /\ container_type \in {"MPEG4", "QUICKTIME"}
    /\ ~use_autosplit

\* The four guards that on_render_init_faststart and
\* post_render_faststart_handler share: enabled, FFMPEG with an MP4 or MOV
\* container, no autosplit.
fast_start_applies ==
    /\ use_faststart_prop
    /\ file_format = "FFMPEG" /\ container_type \in {"MPEG4", "QUICKTIME"}
    /\ ~use_autosplit

\* bpy.path.abspath on the settings enumerated here (absolute or blank ones,
\* none with the "//" prefix of a path relative to the project file).
abs_filepath_setting == filepath

\* "Path(bpy.data.filepath).stem if bpy.data.is_saved and bpy.data.filepath".
blend_name_base == IF blend_filepath # <<>> THEN path_stem(blend_filepath) ELSE <<>>

\* blender_output_dir of the handler.
blender_output_dir_of(abs_setting) ==
    IF os_path_isdir(abs_setting) THEN abs_setting ELSE os_path_dirname(abs_setting)

\* user_setting_basename of the handler.
setting_basename_of(abs_setting) ==
    IF os_path_isdir(abs_setting) THEN blend_name_base
    ELSE os_path_basename(abs_setting)

\* Mutation of secondary_candidates: the fallback names are tried whatever
\* the output path setting names.
secondary_candidates_for_any_target(abs_setting, output_dir, final_output_extension) ==
    IF use_file_extension
    THEN (IF blend_name_base # <<>>
          THEN <<os_path_join(output_dir,
                     construct_video_filename(blend_name_base, <<>>, start_frame,
                                              end_frame, 4, final_output_extension))>>
          ELSE <<>>)
         \o <<os_path_join(output_dir,
                  construct_video_filename(<<>>, <<>>, start_frame, end_frame, 4,
                                           final_output_extension))>>
    ELSE <<>>

\* The fallback paths of the handler in the order it tries them: alt_path_blend
\* (only for a saved project), then alt_path_frames.
secondary_candidates(abs_setting, output_dir, final_output_extension) ==
    IF os_path_isdir(abs_setting) /\ use_file_extension
    THEN (IF blend_name_base # <<>>
          THEN <<os_path_join(output_dir,
                     construct_video_filename(blend_name_base, <<>>, start_frame,
                                              end_frame, 4, final_output_extension))>>
          ELSE <<>>)
         \o <<os_path_join(output_dir,
                  construct_video_filename(<<>>, <<>>, start_frame, end_frame, 4,
                                           final_output_extension))>>
    ELSE <<>>

\* The candidates the handler looks up: each one only while no earlier one
\* was an existing file.
RECURSIVE looked_up(_)
looked_up(candidates) ==
    IF candidates = <<>> THEN <<>>
    ELSE IF is_existing_file(Head(candidates)) THEN <<Head(candidates)>>
    ELSE <<Head(candidates)>> \o looked_up(Tail(candidates))

\* original_rendered_file after the lookups; empty stands for None.
located_file(candidates) ==
    LET tried == looked_up(candidates)
    IN  IF tried # <<>> /\ is_existing_file(tried[Len(tried)])
        THEN tried[Len(tried)] ELSE <<>>

\* fast_start_output_path of the handler.
fast_start_output_path_of(source, suffix) ==
    LET source_dir == os_path_split(source)[1]
        source_basename_full == os_path_split(source)[2]
        source_name_part == splitext(source_basename_full)[1]
        source_ext_part == splitext(source_basename_full)[2]
        fast_start_name_part == source_name_part \o suffix
    IN  os_path_join(source_dir, fast_start_name_part \o source_ext_part)

\* The size of an output that process left incomplete.
PartialSize == 1

\* What one run of run_qtfaststart_processing can meet: the import of the
\* bundled library fails; or process returns or raises, and leaves the output
\* path as it was, or with an empty, an incomplete or the complete file.
ProcessOutcomes ==
    {[imported |-> FALSE, raises |-> FALSE, output |-> "untouched"]}
    \cup [imported : {TRUE}, raises : {FALSE}, output : {"untouched", "empty", "complete"}]
    \cup [imported : {TRUE}, raises : {TRUE}, output : {"untouched", "empty", "partial"}]

NoFiles == [p \in {} |-> 0]

written(files, path, size) ==
    [p \in DOMAIN files \cup {path} |-> IF p = path THEN size ELSE files[p]]

\* os.remove(path).
removed(files, path) == [p \in DOMAIN files \ {path} |-> files[p]]

\* The files after qt_processor_module.process(input, output).
files_after_process(files, input, output, outcome) ==
    IF ~outcome.imported \/ outcome.output = "untouched" THEN files
    ELSE IF outcome.output = "empty" THEN written(files, output, 0)
    ELSE IF outcome.output = "partial" THEN written(files, output, PartialSize)
    ELSE written(files, output, files[input])

\* The return value of run_qtfaststart_processing.
processing_succeeded(files, output, outcome) ==
    /\ outcome.imported
    /\ ~outcome.raises
    /\ output \in DOMAIN files /\ files[output] > 0

\* The files after the handler's cleanup of a failed run.
files_after_cleanup(files, output, success) ==
    IF ~success /\ output \in DOMAIN files /\ files[output] = 0
    THEN removed(files, output) ELSE files

\* What process can raise: the three exceptions of qtfaststart.exceptions,
\* FileNotFoundError, and any other Exception.
ProcessExceptions ==
    {"FastStartSetupError", "MalformedFileError", "UnsupportedFormatError",
     "FileNotFoundError", "Exception"}

\* How the import phase of run_qtfaststart_processing can fail: "import
\* qtfaststart" raises ImportError or another Exception, or the package has
\* no processor submodule.
ImportFailures == {"ImportError", "Exception", "no processor"}

\* Mutation of except_clause_of: the clause "except Exception" is missing.
except_clause_of_named_errors(raised) ==
    IF raised = "FastStartSetupError" THEN "e_setup"
    ELSE IF raised = "MalformedFileError" THEN "e_malformed"
    ELSE IF raised = "UnsupportedFormatError" THEN "e_unsupported"
    ELSE IF raised = "FileNotFoundError" THEN "e_fnf"
    ELSE "None"

\* The except clause around the call of process that takes an exception,
\* the clauses tried in their order; "None" when no clause takes it and it
\* leaves the function.
except_clause_of(raised) ==
    IF raised = "FastStartSetupError" THEN "e_setup"
    ELSE IF raised = "MalformedFileError" THEN "e_malformed"
    ELSE IF raised = "UnsupportedFormatError" THEN "e_unsupported"
    ELSE IF raised = "FileNotFoundError" THEN "e_fnf"
    ELSE IF raised \in ProcessExceptions THEN "e_runtime"
    ELSE "None"

\* The directories os.makedirs(path, exist_ok=True) creates: path and each
\* of its ancestors that is not on disk.
RECURSIVE makedirs_created(_)
makedirs_created(path) ==
    IF path = <<>> \/ os_path_dirname(path) = path \/ os_path_exists(path) THEN {}
    ELSE {path} \cup makedirs_created(os_path_dirname(path))

(***************************************************************************)
(* Bounds and input sets                                                   *)
(***************************************************************************)

\* The longest basename enumerated, in tokens of NameTokens.
MaxTokens == 4

\* The longest raw suffix enumerated, in characters.
MaxSuffixLen == 3

\* The longest all-'#' basename of the frame-formatting runs.
MaxHashRun == 3

\* Frame numbers 0..MaxSmallFrame are enumerated, and LargeFrames besides.
MaxSmallFrame == 13

RECURSIVE StringsUpTo(_, _)
StringsUpTo(alphabet, n) ==
    IF n = 0 THEN {<<>>}
    ELSE LET shorter == StringsUpTo(alphabet, n - 1)
         IN  shorter \cup {Append(p, c) : p \in shorter, c \in alphabet}

RECURSIVE ConcatsUpTo(_, _)
ConcatsUpTo(tokens, n) ==
    IF n = 0 THEN {<<>>}
    ELSE LET shorter == ConcatsUpTo(tokens, n - 1)
         IN  shorter \cup {p \o t : p \in shorter, t \in tokens}

NameTokens ==
    { <<"#">>, <<".">>, <<"t">>,
      <<".","m","p","4">>, <<".","M","P","4">>,
      <<".","m","o","v">>, <<".","M","o","V">> }

\* The names of the module header's cases and of the documented examples.
ExampleBasenames ==
    { <<"T","E","S","T">>,
      <<"T","E","S","T",".","M","P","4">>,
      <<"T","E","S","T","#","#","#",".","M","P","4">>,
      <<"T","E","S","T","#","#","#">>,
      <<"#","#","#","T","E","S","T","#","#","#">>,
      <<"T","E","S","T",".","T","X","T">>,
      <<"T","E","S","T","#","#","#",".","T","X","T">>,
      <<"t","e","s","t">>,
      <<"t","e","s","t",".","M","P","4">>,
      <<"#",".","M","P","4">>,
      <<"t","e","s","t","#","#","#","T","E","S","T","#","#","#",".","m","O","V">>,
      <<"t","e","#","#","s","t",".","m","o","v","#","#","#">>,
      <<"#","#","#","T","E","S","T","#","#","#","T","E","S","T",".","M","P","4","#","#","#">>,
      <<"T","E","S","T","#","#","#","S","T","E",".","M","O","V","#","#","#",".","T","E","S","T">> }

Basenames == ConcatsUpTo(NameTokens, MaxTokens) \cup ExampleBasenames

ContainerTypes == {"MPEG4", "QUICKTIME"}

NamingFrameRanges == {<<1, 1>>, <<1, 5>>, <<1, 13>>}

SuffixAlphabet == {"a", " ", "."} \cup reserved_chars \cup control_chars

\* The suffixes of the preference's description, and longer ones with "..".
ExampleSuffixes ==
    { <<"-","f","a","s","t","s","t","a","r","t">>,
      <<"_","o","p","t","i","m","i","z","e","d">>,
      <<".",".",".",".">>,
      <<".",".",".",".",".">>,
      <<".","."," ","a">>,
      <<"a",".",".","/",".",".","b">>,
      <<" ","-","f","s","\t"," ">>,
      <<".","^A",".","^A",".">> }

RawSuffixes == StringsUpTo(SuffixAlphabet, MaxSuffixLen) \cup ExampleSuffixes

SuffixPrefs == {PrefsMissing, PrefsNone} \cup {PrefsWith(s) : s \in RawSuffixes}

HashRunBasenames == {zeros(0)} \cup {[i \in 1..k |-> "#"] : k \in 1..MaxHashRun}

LargeFrames == {99, 100, 999, 1000, 9999, 10000, 12345}

FrameValues == (0..MaxSmallFrame) \cup LargeFrames

\* The output directory of the enumerated settings.
OutputDir == <<"/","o">>

\* The files of a render and the scenes of a project enumerated together.
MaxEntries == 2

MaxScenes == 2

\* The size of a rendered file.
RenderedSize == 2

\* Output path settings: the directory, with and without a trailing
\* separator, and two file names in it.
LocateSettings ==
    { OutputDir,
      <<"/","o","/">>,
      <<"/","o","/","t">>,
      <<"/","o","/",".","m","p","4">> }

BlendFilepaths ==
    { <<>>,
      <<"/","p","/","s","h","o","t",".","b","l","e","n","d">>,
      <<"/","p","/","s","#",".","b","l","e","n","d">> }

LocatePrefs ==
    { PrefsWith(default_suffix_value), PrefsWith(<<"/","x">>), PrefsWith(<<".",".">>) }

\* Names the host can have written for frames 1 to 5 under these settings.
RenderedNames ==
    { <<"0","0","0","1","-","0","0","0","5",".","m","p","4">>,
      <<"s","h","o","t","0","0","0","1","-","0","0","0","5",".","m","p","4">>,
      <<"s","#","0","0","0","1","-","0","0","0","5",".","m","p","4">>,
      <<"s","1","-","5",".","m","p","4">>,
      <<"t","0","0","0","1","-","0","0","0","5",".","m","p","4">>,
      <<".","m","p","4">> }

RenderedPaths == {os_path_join(OutputDir, n) : n \in RenderedNames}

\* Settings of the scenes of a project: blank ones, a file name, a directory.
JobSettings ==
    { <<>>, <<" ","\t">>, <<"/","o","/","t">>, <<"/","o","/">> }

SceneWith(enabled, format, container, autosplit, path) ==
    [use_faststart_prop |-> enabled, file_format |-> format,
     container_type |-> container, use_autosplit |-> autosplit,
     use_file_extension |-> TRUE, filepath |-> path,
     start_frame |-> 1, end_frame |-> 5]

\* Scenes Fast Start applies to, and scenes that fail one of its guards.
JobScenes ==
    {SceneWith(TRUE, "FFMPEG", "MPEG4", FALSE, p) : p \in JobSettings}
    \cup {SceneWith(FALSE, "FFMPEG", "MPEG4", FALSE, p) : p \in JobSettings}
    \cup {SceneWith(TRUE, "PNG", "MPEG4", FALSE, p) : p \in JobSettings}
    \cup {SceneWith(TRUE, "FFMPEG", "MKV", FALSE, p) : p \in JobSettings}
    \cup {SceneWith(TRUE, "FFMPEG", "QUICKTIME", TRUE, p) : p \in JobSettings}

JobRenderedPath ==
    <<"/","o","/","t","0","0","0","1","-","0","0","0","5",".","m","p","4">>

\* A rendered file, and a directory of the output directory.
ProcessSource == <<"/","o","/","t",".","m","p","4">>

ProcessSubdir == <<"/","o","/","d",".","m","p","4">>

\* Inputs of a direct call: the rendered file, a directory (named with and
\* without a trailing separator), and a path in a directory that is not on
\* disk.
ProcessInputs ==
    { ProcessSource, ProcessSubdir, OutputDir, <<"/","o","/">>,
      <<"/","m","/","t",".","m","p","4">> }

\* The companion of the rendered file.
ProcessCompanion == <<"/","o","/","t","-","f",".","m","p","4">>

\* Outputs of a direct call, none of them a directory: the companion, a name
\* without directory part, and paths whose directory (or its parent too) is
\* not on disk.
ProcessOutputs ==
    { ProcessCompanion,
      <<"t","-","f",".","m","p","4">>,
      <<"/","n","/","t",".","m","p","4">>,
      <<"/","n","/","k","/","t",".","m","p","4">> }

NoPlan == Plan(<<>>, 0, <<>>, <<>>, <<>>, None)

(***************************************************************************)
(* Initial states                                                          *)
(***************************************************************************)

\* No render job has been started since the extension was registered.
InitJob ==
    /\ render_job_cancelled_by_addon = FALSE
    /\ cancelled_at_job_start = FALSE
    /\ init_result = "not_called"
    /\ pre_render_result = "not_called"
    /\ handler_state = "pending"
    /\ custom_suffix = <<>>
    /\ user_setting_basename = <<>>
    /\ plan = NoPlan
    /\ frame_str_component = <<>>
    /\ predicted_blender_filename = <<>>
    /\ original_rendered_file = <<>>
    /\ fast_start_output_path = <<>>
    /\ checked_paths = <<>>
    /\ process_calls = <<>>
    /\ removed_paths = <<>>
    /\ input_path_str = <<>>
    /\ output_path_str = <<>>
    /\ import_failure = "None"
    /\ process_raised = "None"
    /\ processing_result = "not_called"

\* The settings of a scene Fast Start applies to.
InitApplicable ==
    /\ use_faststart_prop = TRUE
    /\ file_format = "FFMPEG"
    /\ use_autosplit = FALSE

\* An unsaved project with one scene, and an output directory without files.
InitBare ==
    /\ scenes = {SceneRecord}
    /\ blend_filepath = <<>>
    /\ dirs = {OutputDir}
    /\ file_size = NoFiles

\* Every output path setting and both states of "File Extension".
InitNaming ==
    /\ InitJob
    /\ InitApplicable
    /\ container_type \in ContainerTypes
    /\ use_file_extension \in BOOLEAN
    /\ filepath \in {os_path_join(OutputDir, b) : b \in Basenames}
    /\ \E r \in NamingFrameRanges : start_frame = r[1] /\ end_frame = r[2]
    /\ addon_prefs = PrefsWith(default_suffix_value)
    /\ InitBare

\* Every suffix preference.
InitSuffix ==
    /\ InitJob
    /\ InitApplicable
    /\ container_type = "MPEG4"
    /\ use_file_extension = TRUE
    /\ filepath = os_path_join(OutputDir, <<"t","e","s","t">>)
    /\ start_frame = 1
    /\ end_frame = 13
    /\ addon_prefs \in SuffixPrefs
    /\ InitBare

\* Every frame range and placeholder width.
InitFrames ==
    /\ InitJob
    /\ InitApplicable
    /\ container_type = "MPEG4"
    /\ use_file_extension \in BOOLEAN
    /\ filepath \in {os_path_join(OutputDir, b) : b \in HashRunBasenames}
    /\ start_frame \in FrameValues
    /\ end_frame \in {e \in FrameValues : start_frame <= e}
    /\ addon_prefs = PrefsWith(default_suffix_value)
    /\ InitBare

\* A finished render of frames 1 to 5 into the output directory: every
\* output path setting of LocateSettings, a saved or an unsaved project, and
\* up to MaxEntries of the names the host can have written, each a file or a
\* directory.
InitLocate ==
    /\ InitJob
    /\ InitApplicable
    /\ container_type = "MPEG4"
    /\ use_file_extension \in BOOLEAN
    /\ filepath \in LocateSettings
    /\ start_frame = 1
    /\ end_frame = 5
    /\ addon_prefs \in LocatePrefs
    /\ scenes = {SceneRecord}
    /\ blend_filepath \in BlendFilepaths
    /\ \E F \in SUBSET RenderedPaths : \E D \in SUBSET (RenderedPaths \ F) :
           /\ Cardinality(F) + Cardinality(D) <= MaxEntries
           /\ Cardinality(D) <= 1
           /\ dirs = {OutputDir} \cup D
           /\ file_size = [p \in F |-> RenderedSize]

\* A project with up to MaxScenes scenes of JobScenes, one of them current,
\* and the output directory: empty, with a rendered file, or with a directory
\* of the rendered file's name.
InitJobs ==
    /\ InitJob
    /\ \E S \in SUBSET JobScenes :
           /\ S # {}
           /\ Cardinality(S) <= MaxScenes
           /\ scenes = S
           /\ \E s \in S :
                  /\ use_faststart_prop = s.use_faststart_prop
                  /\ file_format = s.file_format
                  /\ container_type = s.container_type
                  /\ use_autosplit = s.use_autosplit
                  /\ use_file_extension = s.use_file_extension
                  /\ filepath = s.filepath
                  /\ start_frame = s.start_frame
                  /\ end_frame = s.end_frame
    /\ addon_prefs = PrefsWith(default_suffix_value)
    /\ blend_filepath = <<>>
    /\ \/ /\ dirs = {OutputDir}
          /\ file_size \in {NoFiles, [p \in {JobRenderedPath} |-> RenderedSize]}
       \/ /\ dirs = {OutputDir, JobRenderedPath}
          /\ file_size = NoFiles

\* Before a direct call of run_qtfaststart_processing: the output directory
\* with or without the rendered file, with or without a subdirectory, and
\* with no file, an empty file or a complete file at the companion path.
InitProcess ==
    /\ InitJob
    /\ InitApplicable
    /\ container_type = "MPEG4"
    /\ use_file_extension = TRUE
    /\ filepath = os_path_join(OutputDir, <<"t">>)
    /\ start_frame = 1
    /\ end_frame = 5
    /\ addon_prefs = PrefsWith(default_suffix_value)
    /\ scenes = {SceneRecord}
    /\ blend_filepath = <<>>
    /\ dirs \in {{OutputDir}, {OutputDir, ProcessSubdir}}
    /\ \E F \in SUBSET {ProcessSource, ProcessCompanion} :
           \E size \in {0, RenderedSize} :
               file_size = [p \in F |-> IF p = ProcessCompanion THEN size
                                        ELSE RenderedSize]

Init == InitNaming \/ InitSuffix \/ InitFrames \/ InitLocate \/ InitJobs

(***************************************************************************)
(* The handlers                                                            *)
(***************************************************************************)

\* The host runs render_init, then render_pre before each frame, then the
\* post-render handler: a job is in progress from the first to the last.
JobInProgress == init_result # "not_called" /\ handler_state = "pending"

\* Mutation of cancelled_after_init: the flag is not reset.
cancelled_without_reset(cancelled_before, rejected) == cancelled_before \/ rejected

\* _render_job_cancelled_by_addon when on_render_init_faststart ends: reset
\* at its first statement, set when the handler rejects the job.
cancelled_after_init(cancelled_before, rejected) == rejected

\* A render job starts on one of the project's scenes.
on_render_init_faststart ==
    /\ ~JobInProgress
    /\ \E scene \in scenes :
           LET rejected ==
                   /\ scene.use_faststart_prop
                   /\ scene.file_format = "FFMPEG"
                   /\ scene.container_type \in {"MPEG4", "QUICKTIME"}
                   /\ ~scene.use_autosplit
                   /\ filepath_is_blank(scene.filepath)
           IN  /\ use_faststart_prop' = scene.use_faststart_prop
               /\ file_format' = scene.file_format
               /\ container_type' = scene.container_type
               /\ use_autosplit' = scene.use_autosplit
               /\ use_file_extension' = scene.use_file_extension
               /\ filepath' = scene.filepath
               /\ start_frame' = scene.start_frame
               /\ end_frame' = scene.end_frame
               /\ render_job_cancelled_by_addon' =
                      cancelled_after_init(render_job_cancelled_by_addon, rejected)
               /\ init_result' = IF rejected THEN "raised" ELSE "returned"
    /\ cancelled_at_job_start' = render_job_cancelled_by_addon
    /\ pre_render_result' = "not_called"
    /\ handler_state' = "pending"
    /\ custom_suffix' = <<>>
    /\ user_setting_basename' = <<>>
    /\ plan' = NoPlan
    /\ frame_str_component' = <<>>
    /\ predicted_blender_filename' = <<>>
    /\ original_rendered_file' = <<>>
    /\ fast_start_output_path' = <<>>
    /\ checked_paths' = <<>>
    /\ process_calls' = <<>>
    /\ removed_paths' = <<>>
    /\ UNCHANGED <<scenes, addon_prefs, blend_filepath, dirs, file_size, direct_call>>

check_output_path_pre_render_faststart ==
    /\ JobInProgress
    /\ pre_render_result' =
           IF render_job_cancelled_by_addon THEN "raised" ELSE "returned"
    /\ UNCHANGED <<render_job_cancelled_by_addon, inputs, file_size,
                   cancelled_at_job_start, init_result, handler_state, outputs,
                   effects, direct_call>>

\* Mutation of post_render_skips: the rejected-job flag is not read.
post_render_skips_on_guards_only == ~fast_start_applies

\* The early returns of post_render_faststart_handler.
post_render_skips == render_job_cancelled_by_addon \/ ~fast_start_applies

post_render_faststart_handler ==
    /\ JobInProgress
    /\ IF post_render_skips
       THEN /\ handler_state' = "skipped"
            /\ UNCHANGED <<file_size, outputs, effects>>
       ELSE LET suffix == custom_suffix_of(addon_prefs)
                output_dir == blender_output_dir_of(abs_filepath_setting)
                basename == setting_basename_of(abs_filepath_setting)
                new_plan == naming_plan(basename, use_file_extension, container_type)
                predicted == predicted_filename_of(new_plan, start_frame, end_frame)
                potential_final_path == os_path_join(output_dir, predicted)
                candidates ==
                    <<potential_final_path>>
                    \o secondary_candidates(abs_filepath_setting, output_dir,
                                            new_plan.final_output_extension)
                source == located_file(candidates)
                output == fast_start_output_path_of(source, suffix)
            IN  /\ custom_suffix' = suffix
                /\ user_setting_basename' = basename
                /\ plan' = new_plan
                /\ frame_str_component' =
                       frame_str_component_of(start_frame, end_frame,
                                              new_plan.frame_padding)
                /\ predicted_blender_filename' = predicted
                /\ checked_paths' = looked_up(candidates)
                /\ original_rendered_file' = source
                /\ IF source = <<>>
                   THEN /\ handler_state' = "not_found"
                        /\ fast_start_output_path' = <<>>
                        /\ UNCHANGED <<file_size, process_calls, removed_paths>>
                   ELSE \E outcome \in ProcessOutcomes :
                            LET processed ==
                                    files_after_process(file_size, source, output, outcome)
                                success == processing_succeeded(processed, output, outcome)
                                cleaned == files_after_cleanup(processed, output, success)
                            IN  /\ handler_state' =
                                       IF success THEN "succeeded" ELSE "failed"
                                /\ fast_start_output_path' = output
                                /\ process_calls' =
                                       IF outcome.imported
                                       THEN <<[input |-> source, output |-> output]>>
                                       ELSE <<>>
                                /\ file_size' = cleaned
                                /\ removed_paths' =
                                       IF cleaned # processed THEN <<output>> ELSE <<>>
    /\ UNCHANGED <<render_job_cancelled_by_addon, inputs, cancelled_at_job_start,
                   init_result, pre_render_result, direct_call>>

\* One call of run_qtfaststart_processing(input_path_str, output_path_str).
run_qtfaststart_processing ==
    /\ processing_result = "not_called"
    /\ \E input \in ProcessInputs, output \in ProcessOutputs,
          makedirs_fails \in BOOLEAN, outcome \in ProcessOutcomes :
         \E failure \in (IF outcome.imported THEN {"None"} ELSE ImportFailures),
            raised \in (IF outcome.raises THEN ProcessExceptions ELSE {"None"}) :
             LET output_dir == os_path_dirname(output)
                 input_is_file == os_path_exists(input) /\ ~os_path_isdir(input)
                 dir_missing == output_dir # <<>> /\ ~os_path_exists(output_dir)
                 reaches_import ==
                     input_is_file /\ ~(dir_missing /\ makedirs_fails)
                 calls_process == reaches_import /\ outcome.imported
                 processed ==
                     IF calls_process
                     THEN files_after_process(file_size, input, output, outcome)
                     ELSE file_size
                 success ==
                     calls_process /\ processing_succeeded(processed, output, outcome)
             IN  /\ input_path_str' = input
                 /\ output_path_str' = output
                 /\ dirs' = IF input_is_file /\ dir_missing /\ ~makedirs_fails
                            THEN dirs \cup makedirs_created(output_dir)
                            ELSE dirs
                 /\ import_failure' = IF reaches_import THEN failure ELSE "None"
                 /\ process_raised' = IF calls_process THEN raised ELSE "None"
                 /\ process_calls' =
                        IF calls_process
                        THEN <<[input |-> input, output |-> output]>>
                        ELSE <<>>
                 /\ file_size' = processed
                 /\ processing_result' =
                        IF calls_process /\ raised # "None"
                           /\ except_clause_of(raised) = "None"
                        THEN "raised"
                        ELSE IF success THEN "True" ELSE "False"
    /\ UNCHANGED <<render_job_cancelled_by_addon, scenes, scene_settings, addon_prefs,
                   blend_filepath, results, outputs, checked_paths, removed_paths>>

Next ==
    \/ on_render_init_faststart
    \/ check_output_path_pre_render_faststart
    \/ post_render_faststart_handler

Spec == Init /\ [][Next]_vars

SpecNaming == InitNaming /\ [][Next]_vars

SpecSuffix == InitSuffix /\ [][Next]_vars

SpecFrames == InitFrames /\ [][Next]_vars

SpecLocate == InitLocate /\ [][Next]_vars

SpecJobs == InitJobs /\ [][Next]_vars

\* run_qtfaststart_processing called on its own.
SpecProcess == InitProcess /\ [][run_qtfaststart_processing]_vars

(***************************************************************************)
(* Vocabulary of the properties                                            *)
(***************************************************************************)

Predicted == handler_state \in {"not_found", "failed", "succeeded"}

HasHash(s) == \E i \in 1..Len(s) : s[i] = "#"

\* The position of the last '.' of s, 0 when s has none.
LastDotPos(s) ==
    IF \E i \in 1..Len(s) : s[i] = "."
    THEN CHOOSE i \in 1..Len(s) : s[i] = "." /\ \A j \in (i + 1)..Len(s) : s[j] # "."
    ELSE 0

\* s split on its last '.': the text before it, and the text from it on.
BeforeLastDot(s) == IF LastDotPos(s) = 0 THEN s ELSE SubSeq(s, 1, LastDotPos(s) - 1)

FromLastDot(s) == IF LastDotPos(s) = 0 THEN <<>> ELSE SubSeq(s, LastDotPos(s), Len(s))

\* The text from the last '.' equals the container's extension, case ignored.
UserExtMatches(s, container) ==
    /\ Len(FromLastDot(s)) = 4
    /\ lower(FromLastDot(s)) =
           (IF container = "MPEG4" THEN <<".","m","p","4">> ELSE <<".","m","o","v">>)

CorrectExtension == IF container_type = "MPEG4" THEN <<".","m","p","4">> ELSE <<".","m","o","v">>

\* s[i..j] (1-based, inclusive) is a maximal run of '#'.
IsMaximalRun(s, i, j) ==
    /\ 1 <= i /\ i <= j /\ j <= Len(s)
    /\ \A k \in i..j : s[k] = "#"
    /\ (i = 1 \/ s[i - 1] # "#")
    /\ (j = Len(s) \/ s[j + 1] # "#")

\* s[i..j] is the maximal run of '#' that starts last.
IsRightmostRun(s, i, j) ==
    /\ IsMaximalRun(s, i, j)
    /\ \A k \in (j + 1)..Len(s) : s[k] # "#"

\* The plan replaces the rightmost run of s: the text before it is the base,
\* its length the width, the text after it (then tail) the middle.
SplitsAtRightmostRun(s, tail) ==
    \E i \in 1..Len(s) : \E j \in i..Len(s) :
        /\ IsRightmostRun(s, i, j)
        /\ plan.base_for_construction = SubSeq(s, 1, i - 1)
        /\ plan.frame_padding = j - i + 1
        /\ plan.suffix_after_frames = SubSeq(s, j + 1, Len(s)) \o tail

\* The predicted name is the plan's parts around the frame token.
NameIsAssembled ==
    predicted_blender_filename =
        plan.base_for_construction \o frame_str_component
            \o plan.suffix_after_frames \o plan.final_output_extension

(***************************************************************************)
(* C1 .. C5: the naming rules                                              *)
(***************************************************************************)

\* C1: with "File Extension" checked and the user extension wrong or absent, a
\* basename with a '#' run anywhere (also after its last '.') is split at the
\* rightmost run of the whole basename: base = the text before the run, width =
\* the run's length, middle = the text after it, extension = the lowercase
\* correct one ("te##st.mov###", .mp4, frames 1-13: "te##st.mov001-013.mp4").
C1_RightmostRunOfWholeBasename ==
    (/\ Predicted
     /\ use_file_extension
     /\ ~UserExtMatches(user_setting_basename, container_type)
     /\ HasHash(user_setting_basename))
    => /\ SplitsAtRightmostRun(user_setting_basename, <<>>)
       /\ plan.final_output_extension = CorrectExtension
       /\ NameIsAssembled

\* C2: with "File Extension" checked, whenever the text from the last '.' of the
\* basename equals the container's extension (case ignored), the plan is base =
\* the text before that '.', width 0, middle "", extension = the lowercase
\* correct one: every '#' stays literal and no frame token is inserted.
C2_MatchingExtensionKeepsNameLiteral ==
    (/\ Predicted
     /\ use_file_extension
     /\ UserExtMatches(user_setting_basename, container_type))
    => /\ plan.base_for_construction = BeforeLastDot(user_setting_basename)
       /\ plan.frame_padding = 0
       /\ plan.suffix_after_frames = <<>>
       /\ plan.final_output_extension = CorrectExtension
       /\ frame_str_component = <<>>
       /\ predicted_blender_filename =
              BeforeLastDot(user_setting_basename) \o CorrectExtension

\* C3: with "File Extension" checked, a basename with no '#' whose extension is
\* absent or does not match the container gives base = the whole basename
\* (wrong extension included), width 4, middle "", extension = the lowercase
\* correct one; a frame token is always inserted ("TEST.TXT", .mp4, frames 1-5:
\* "TEST.TXT0001-0005.mp4").
C3_NoPlaceholderGetsFourDigits ==
    (/\ Predicted
     /\ use_file_extension
     /\ ~HasHash(user_setting_basename)
     /\ ~UserExtMatches(user_setting_basename, container_type))
    => /\ plan.base_for_construction = user_setting_basename
       /\ plan.frame_padding = 4
       /\ plan.suffix_after_frames = <<>>
       /\ plan.final_output_extension = CorrectExtension
       /\ frame_str_component # <<>>
       /\ predicted_blender_filename =
              user_setting_basename \o frame_str_component \o CorrectExtension
       /\ (/\ user_setting_basename = <<"T","E","S","T",".","T","X","T">>
           /\ container_type = "MPEG4" /\ start_frame = 1 /\ end_frame = 5)
          => predicted_blender_filename =
                 <<"T","E","S","T",".","T","X","T","0","0","0","1","-",
                   "0","0","0","5",".","m","p","4">>

C3_Witness ==
    /\ Predicted
    /\ use_file_extension
    /\ container_type = "MPEG4"
    /\ user_setting_basename = <<"T","E","S","T",".","T","X","T">>
    /\ start_frame = 1 /\ end_frame = 5
    /\ plan.frame_padding = 4

\* C4: with "File Extension" unchecked, the basename is split on its last '.'
\* into (stem, literal_ext); if the stem has a '#' run, the rightmost run of the
\* stem is replaced by the frame token of that run's width, and literal_ext is
\* appended exactly as typed ("#.MP4", frames 1-13: "1-13.MP4").
C4_UncheckedReplacesRightmostRunOfStem ==
    (/\ Predicted
     /\ ~use_file_extension
     /\ HasHash(BeforeLastDot(user_setting_basename)))
    => /\ SplitsAtRightmostRun(BeforeLastDot(user_setting_basename), <<>>)
       /\ plan.final_output_extension = FromLastDot(user_setting_basename)
       /\ frame_str_component # <<>>
       /\ NameIsAssembled
       /\ (/\ user_setting_basename = <<"#",".","M","P","4">>
           /\ start_frame = 1 /\ end_frame = 13)
          => predicted_blender_filename = <<"1","-","1","3",".","M","P","4">>

C4_Witness ==
    /\ Predicted
    /\ ~use_file_extension
    /\ user_setting_basename = <<"#",".","M","P","4">>
    /\ start_frame = 1 /\ end_frame = 13
    /\ plan.frame_padding = 1
    /\ plan.final_output_extension = <<".","M","P","4">>

AmendedStem(s) ==
    IF \E k \in 1..(LastDotPos(s) - 1) : s[k] # "." THEN BeforeLastDot(s) ELSE s

HasDotDot(s) == \E i \in 1..(Len(s) - 1) : s[i] = "." /\ s[i + 1] = "."

\* s[i..j] (1-based, inclusive) is a maximal run of '.'.
IsMaximalDotRun(s, i, j) ==
    /\ 1 <= i /\ i <= j /\ j <= Len(s)
    /\ \A k \in i..j : s[k] = "."
    /\ (i = 1 \/ s[i - 1] # ".")
    /\ (j = Len(s) \/ s[j + 1] # ".")

\* Nothing but whitespace would be left of s: it holds only whitespace,
\* control characters and '.' runs of even length.
ReducesToBlank(s) ==
    /\ \A k \in 1..Len(s) : s[k] \in whitespace_chars \cup control_chars \cup {"."}
    /\ \A i \in 1..Len(s) : \A j \in i..Len(s) :
           IsMaximalDotRun(s, i, j) => (j - i + 1) % 2 = 0

\* C6: the sanitization is idempotent: sanitizing the sanitized suffix again
\* gives the same suffix, for every raw suffix.
C6_SanitizeIsIdempotent ==
    Predicted => custom_suffix_of(PrefsWith(custom_suffix)) = custom_suffix

\* C7: the sanitized suffix holds no reserved character, no control character
\* and no "..", for every raw suffix.
C7_SuffixHasNoUnsafeText ==
    Predicted =>
        /\ \A k \in 1..Len(custom_suffix) :
               custom_suffix[k] \notin reserved_chars \cup control_chars
        /\ ~HasDotDot(custom_suffix)

\* C8: the sanitized suffix is never empty; it is "-faststart" when the
\* preference is missing, None, empty, whitespace-only or reduced to nothing or
\* to whitespace, and a non-empty string otherwise.
C8_SuffixIsNeverEmpty ==
    Predicted =>
        /\ custom_suffix # <<>>
        /\ \E k \in 1..Len(custom_suffix) : custom_suffix[k] \notin whitespace_chars
        /\ (\/ ~addon_prefs.found
            \/ addon_prefs.is_none
            \/ ReducesToBlank(addon_prefs.faststart_suffix_prop))
           => custom_suffix = <<"-","f","a","s","t","s","t","a","r","t">>

C8_Witness ==
    /\ Predicted
    /\ addon_prefs.found /\ ~addon_prefs.is_none
    /\ addon_prefs.faststart_suffix_prop = <<" ", ".", ".">>
    /\ custom_suffix = <<"-","f","a","s","t","s","t","a","r","t">>

(***************************************************************************)
(* C9: the frame token                                                     *)
(***************************************************************************)

IsDigit(c) == \E d \in 1..Len(DigitChars) : DigitChars[d] = c

DigitValue(c) == (CHOOSE d \in 1..Len(DigitChars) : DigitChars[d] = c) - 1

RECURSIVE DecimalValue(_)
DecimalValue(s) ==
    IF s = <<>> THEN 0
    ELSE 10 * DecimalValue(SubSeq(s, 1, Len(s) - 1)) + DigitValue(s[Len(s)])

RECURSIVE NumDigits(_)
NumDigits(n) == IF n < 10 THEN 1 ELSE 1 + NumDigits(n \div 10)

\* s writes n in decimal, with zeros in front up to w characters and in full
\* when n has more than w digits.
IsZeroPadded(s, n, w) ==
    /\ Len(s) = (IF NumDigits(n) > w THEN NumDigits(n) ELSE w)
    /\ \A k \in 1..Len(s) : IsDigit(s[k])
    /\ DecimalValue(s) = n

\* C9: whenever the width w > 0, for all frames 0 <= start <= end the frame
\* token is start zero-padded to w digits, '-', end zero-padded to w digits,
\* each padded on its own, also when start = end; a number with more than w
\* digits is written in full (w = 4: (1,1) "0001-0001", (1,13) "0001-0013").
C9_FrameTokenIsZeroPaddedRange ==
    (Predicted /\ plan.frame_padding > 0) =>
        LET w == plan.frame_padding
            n == IF NumDigits(start_frame) > w THEN NumDigits(start_frame) ELSE w
        IN  /\ Len(frame_str_component) > n + 1
            /\ IsZeroPadded(SubSeq(frame_str_component, 1, n), start_frame, w)
            /\ frame_str_component[n + 1] = "-"
            /\ IsZeroPadded(SubSeq(frame_str_component, n + 2,
                                   Len(frame_str_component)), end_frame, w)
            /\ NameIsAssembled
            /\ (w = 4 /\ start_frame = 1 /\ end_frame = 1)
               => frame_str_component = <<"0","0","0","1","-","0","0","0","1">>
            /\ (w = 4 /\ start_frame = 1 /\ end_frame = 13)
               => frame_str_component = <<"0","0","0","1","-","0","0","1","3">>

C9_Witness ==
    /\ Predicted
    /\ plan.frame_padding = 2
    /\ start_frame = 5 /\ end_frame = 12345
    /\ frame_str_component = <<"0","5","-","1","2","3","4","5">>

(***************************************************************************)
(* C10: the '#' scan                                                       *)
(***************************************************************************)

\* The handler ran a '#' scan (every case but a matching extension).
Scanned == Predicted /\ plan.scanned # <<>>

\* C10: when the scanned string has a '#' run, the selected run is maximal and
\* starts last among the maximal runs; the base is the text before it, the
\* width its length, the text after it holds no '#' and opens the middle, so
\* the text outside the run is unchanged.  When the string has no '#', no run
\* is selected.
C10_ScanSelectsRightmostRun ==
    Scanned =>
        LET s == plan.scanned[1]
            m == plan.last_hash_match
        IN  IF HasHash(s)
            THEN /\ m # None
                 /\ IsMaximalRun(s, m.start + 1, m.end)
                 /\ \A i \in 1..Len(s) : \A j \in i..Len(s) :
                        IsMaximalRun(s, i, j) => i <= m.start + 1
                 /\ ~HasHash(SubSeq(s, m.end + 1, Len(s)))
                 /\ plan.base_for_construction = SubSeq(s, 1, m.start)
                 /\ plan.frame_padding = m.end - m.start
                 /\ Len(plan.suffix_after_frames) >= Len(s) - m.end
                 /\ SubSeq(plan.suffix_after_frames, 1, Len(s) - m.end)
                        = SubSeq(s, m.end + 1, Len(s))
                 /\ plan.base_for_construction
                        \o [k \in 1..plan.frame_padding |-> "#"]
                        \o SubSeq(plan.suffix_after_frames, 1, Len(s) - m.end) = s
            ELSE m = None

C10_Witness ==
    /\ Scanned
    /\ plan.scanned[1] = <<"#","#","#","T","E","S","T","#","#","#">>
    /\ plan.last_hash_match = [start |-> 7, end |-> 10]
    /\ plan.base_for_construction = <<"#","#","#","T","E","S","T">>

(***************************************************************************)
(* C11 .. C14: directory targets and the file locator                      *)
(***************************************************************************)

DirectoryTarget == os_path_isdir(abs_filepath_setting)

FrameToken4 == frame_str_component_of(start_frame, end_frame, 4)

\* C11: when the output path setting is an existing directory, the naming
\* rules are fed the empty basename, whether or not the project is saved and
\* whatever it is called: with "File Extension" checked the predicted name is
\* the 4-digit frame token plus the container's extension, and unchecked it is
\* the empty base, without frame token and without extension.
C11_DirectoryTargetHasEmptyBasename ==
    (Predicted /\ DirectoryTarget)
    => /\ user_setting_basename = <<>>
       /\ plan.base_for_construction = <<>>
       /\ use_file_extension =>
              /\ plan.frame_padding = 4
              /\ predicted_blender_filename = FrameToken4 \o CorrectExtension
       /\ ~use_file_extension =>
              /\ plan.frame_padding = 0
              /\ predicted_blender_filename = <<>>

\* C11 holds for an unsaved project.
C11_UnsavedProjectHasEmptyBasename ==
    (Predicted /\ DirectoryTarget /\ blend_filepath = <<>>)
    => /\ user_setting_basename = <<>>
       /\ plan.base_for_construction = <<>>
       /\ use_file_extension =>
              /\ plan.frame_padding = 4
              /\ predicted_blender_filename = FrameToken4 \o CorrectExtension
       /\ ~use_file_extension =>
              /\ plan.frame_padding = 0
              /\ predicted_blender_filename = <<>>

\* The predicted path was looked up and is not the file the handler took.
PrimaryMissed == Predicted /\ original_rendered_file # checked_paths[1]

SecondaryChecked == Len(checked_paths) > 1

\* C12: when the predicted path misses, a secondary candidate is looked up if
\* and only if the output path setting is a directory: never for a setting
\* that is not a directory, always for a directory before the file is
\* reported as not found.
C12_SecondaryCandidatesIffDirectoryTarget ==
    PrimaryMissed => (SecondaryChecked <=> DirectoryTarget)

\* C12 holds for a setting that is not a directory.
C12_NoSecondaryForFileTarget ==
    (Predicted /\ ~DirectoryTarget) => ~SecondaryChecked

\* C12 holds with "File Extension" checked.
C12_SecondaryForDirectoryWhenExtensionChecked ==
    (PrimaryMissed /\ use_file_extension) => (SecondaryChecked <=> DirectoryTarget)

\* A name in the directory the output path setting points into; the primary
\* candidate is the predicted name there.
PathInOutputDir(name) ==
    os_path_join(blender_output_dir_of(abs_filepath_setting), name)

PrimaryPath == PathInOutputDir(predicted_blender_filename)

\* The secondary candidates: the frame token alone, and the project's name
\* before it, each with the plan's extension, in the output directory.
NumericOnlyPath ==
    os_path_join(blender_output_dir_of(abs_filepath_setting),
                 FrameToken4 \o plan.final_output_extension)

ProjectNamePath ==
    os_path_join(blender_output_dir_of(abs_filepath_setting),
                 blend_name_base \o FrameToken4 \o plan.final_output_extension)

\* The file taken is the first existing file among the paths looked up, and
\* no path is looked up after it.
FirstHitWins ==
    /\ \A i \in 1..(Len(checked_paths) - 1) : ~is_existing_file(checked_paths[i])
    /\ original_rendered_file =
           IF is_existing_file(checked_paths[Len(checked_paths)])
           THEN checked_paths[Len(checked_paths)] ELSE <<>>

\* C13: the candidates are looked up in a fixed order and the first hit wins:
\* the predicted path, then the numeric-token-only name, then the
\* project-name one.  When the predicted path misses and both secondary
\* candidates are files on disk, the numeric-token-only one is taken; a
\* directory is never taken.
C13_CandidatesInOrderFirstHitWins ==
    Predicted
    => /\ checked_paths[1] = PrimaryPath
       /\ FirstHitWins
       /\ \A i, j \in 1..Len(checked_paths) :
              (/\ checked_paths[i] = NumericOnlyPath
               /\ checked_paths[j] = ProjectNamePath
               /\ NumericOnlyPath # ProjectNamePath) => i < j
       /\ (/\ PrimaryMissed
           /\ DirectoryTarget
           /\ blend_name_base # <<>>
           /\ is_existing_file(NumericOnlyPath)
           /\ is_existing_file(ProjectNamePath)) => original_rendered_file = NumericOnlyPath
       /\ ~os_path_isdir(original_rendered_file)

\* C13 without the order of the secondary candidates holds.
C13_FirstHitWinsNeverDirectory ==
    Predicted
    => /\ checked_paths[1] = PrimaryPath
       /\ FirstHitWins
       /\ ~os_path_isdir(original_rendered_file)

\* A step of post_render_faststart_handler past its guards.
PostRenderStep ==
    /\ JobInProgress
    /\ handler_state' # "pending"
    /\ ~render_job_cancelled_by_addon
    /\ fast_start_applies

\* C14: when the predicted path is no file on disk (absent, or a directory)
\* and the output path setting is not a directory, the handler ends with
\* "not found": it returns, does not call process, and no file is created,
\* changed or deleted.
C14_FileTargetMissLeavesDiskAlone ==
    [][(/\ PostRenderStep
        /\ ~DirectoryTarget
        /\ ~is_existing_file(PathInOutputDir(predicted_blender_filename')))
       => /\ handler_state' = "not_found"
          /\ original_rendered_file' = <<>>
          /\ process_calls' = <<>>
          /\ removed_paths' = <<>>
          /\ file_size' = file_size]_vars

\* A miss for a file target while the numeric-token-only file is on disk.
C14_Witness ==
    /\ handler_state = "not_found"
    /\ ~DirectoryTarget
    /\ use_file_extension
    /\ checked_paths = <<PrimaryPath>>
    /\ PrimaryPath # NumericOnlyPath
    /\ NumericOnlyPath \in DOMAIN file_size

(***************************************************************************)
(* C15 .. C17: the rejected-job flag                                       *)
(***************************************************************************)

\* The job's render_init has run.
JobStarted == init_result # "not_called"

\* s is empty or holds whitespace only.
IsBlank(s) == \A i \in 1..Len(s) : s[i] \in whitespace_chars

\* C15: for a job Fast Start applies to (enabled, FFMPEG with an MPEG4 or
\* QUICKTIME container, no autosplit) whose output path setting is empty or
\* whitespace only, render_init sets the rejected-job flag and raises, and
\* every render_pre of the job raises.
C15_BlankPathRejectsJob ==
    (/\ JobStarted
     /\ use_faststart_prop
     /\ file_format = "FFMPEG"
     /\ container_type \in {"MPEG4", "QUICKTIME"}
     /\ ~use_autosplit
     /\ IsBlank(filepath))
    => /\ init_result = "raised"
       /\ render_job_cancelled_by_addon
       /\ pre_render_result # "returned"

\* A job with a whitespace-only setting, rejected, its render_pre raised.
C15_Witness ==
    /\ JobStarted
    /\ fast_start_applies
    /\ filepath = <<" ", "\t">>
    /\ init_result = "raised"
    /\ render_job_cancelled_by_addon
    /\ pre_render_result = "raised"

\* C16: once the rejected-job flag is set, the later steps of the job have no
\* side effect: each pre-render check raises, and the post-render handler
\* returns early, leaving its locals unset (no preference read, no name
\* predicted), looking up no path, changing no file and not calling process;
\* neither changes the flag.
C16_RejectedJobShortCircuits ==
    [][(render_job_cancelled_by_addon /\ JobInProgress)
       => /\ render_job_cancelled_by_addon'
          /\ UNCHANGED <<inputs, file_size, cancelled_at_job_start, init_result,
                         outputs, effects>>
          /\ custom_suffix' = <<>>
          /\ predicted_blender_filename' = <<>>
          /\ checked_paths' = <<>>
          /\ process_calls' = <<>>
          /\ removed_paths' = <<>>
          /\ IF handler_state' = "pending"
             THEN pre_render_result' = "raised"
             ELSE /\ handler_state' = "skipped"
                  /\ pre_render_result' = pre_render_result]_vars

\* A rejected job after its pre-render check and its post-render handler.
C16_Witness ==
    /\ render_job_cancelled_by_addon
    /\ init_result = "raised"
    /\ pre_render_result = "raised"
    /\ handler_state = "skipped"
    /\ JobRenderedPath \in DOMAIN file_size

\* C17: render_init clears the rejected-job flag before any of its checks,
\* also for a job Fast Start does not apply to, so in every job of every
\* sequence of jobs the flag is set only if this job's render_init rejected
\* it: a job whose render_init returned is not stopped by its pre-render
\* check and is skipped by its post-render handler only by its own guards,
\* whatever became of the jobs before it.
C17_FlagIsOfThisJobOnly ==
    JobStarted
    => /\ render_job_cancelled_by_addon
              <=> (fast_start_applies /\ IsBlank(filepath))
       /\ render_job_cancelled_by_addon <=> init_result = "raised"
       /\ init_result = "returned" =>
              /\ pre_render_result # "raised"
              /\ handler_state = "skipped" => ~fast_start_applies

\* A job that ran to the end right after a rejected one.
C17_Witness ==
    /\ cancelled_at_job_start
    /\ ~render_job_cancelled_by_addon
    /\ init_result = "returned"
    /\ pre_render_result = "returned"
    /\ handler_state = "succeeded"

\* A job Fast Start does not apply to, started right after a rejected one.
C17_WitnessNotApplicable ==
    /\ cancelled_at_job_start
    /\ ~render_job_cancelled_by_addon
    /\ ~fast_start_applies
    /\ IsBlank(filepath)
    /\ pre_render_result = "returned"
    /\ handler_state = "skipped"

(***************************************************************************)
(* C18 .. C20: the relocation and the companion file                       *)
(***************************************************************************)

CompanionOnDisk == fast_start_output_path \in DOMAIN file_size

\* C18: whenever the relocation fails (process raises, or returns leaving an
\* absent or an empty output), the handler returns and removes what the run
\* left at the companion path: after a failed job there is no file at the
\* companion path.
C18_FailedRunLeavesNoCompanion ==
    handler_state = "failed" => ~CompanionOnDisk

\* C18 for empty files holds: a failed job leaves no empty file at the
\* companion path.
C18_FailedRunLeavesNoEmptyCompanion ==
    (handler_state = "failed" /\ CompanionOnDisk) => file_size[fast_start_output_path] > 0

\* A step of post_render_faststart_handler.
HandlerStep == handler_state = "pending" /\ handler_state' # "pending"

\* C19: the located source file is untouched on every path: the output path
\* handed to process is never the source path (the sanitized suffix is not
\* empty), the only path the handler removes is the companion path, never the
\* source, and every file but the one at the companion path is on disk after
\* the handler as it was before.
C19_SourceIsUntouched ==
    [][HandlerStep
       => /\ original_rendered_file' # <<>> =>
                 /\ fast_start_output_path' # original_rendered_file'
                 /\ original_rendered_file' \in DOMAIN file_size'
                 /\ file_size'[original_rendered_file']
                        = file_size[original_rendered_file']
          /\ \A i \in 1..Len(process_calls') :
                 /\ process_calls'[i].input = original_rendered_file'
                 /\ process_calls'[i].output # original_rendered_file'
          /\ \A i \in 1..Len(removed_paths') :
                 /\ removed_paths'[i] = fast_start_output_path'
                 /\ removed_paths'[i] # original_rendered_file'
          /\ \A p \in DOMAIN file_size :
                 p # fast_start_output_path' =>
                     (p \in DOMAIN file_size' /\ file_size'[p] = file_size[p])]_vars

\* A failed run whose empty output the handler removed, the source in place.
C19_Witness ==
    /\ handler_state = "failed"
    /\ Len(process_calls) = 1
    /\ removed_paths = <<fast_start_output_path>>
    /\ original_rendered_file \in DOMAIN file_size
    /\ ~CompanionOnDisk

SourceName == os_path_basename(original_rendered_file)

CompanionName == os_path_basename(fast_start_output_path)

HasSeparator(s) == \E i \in 1..Len(s) : s[i] \in {"/", "\\"}

\* The text of s after its stem as amended.
AmendedExtension(s) == SubSeq(s, Len(AmendedStem(s)) + 1, Len(s))

\* C20: the companion path is the source's directory joined with
\* stem + suffix + extension, the source's basename being split on its last
\* '.': the companion lies in the source's directory (the suffix holds no
\* path separator) and its name ends with the extension of the source.
C20_Original ==
    fast_start_output_path # <<>>
    => /\ fast_start_output_path =
              os_path_join(os_path_dirname(original_rendered_file),
                           BeforeLastDot(SourceName) \o custom_suffix
                               \o FromLastDot(SourceName))
       /\ os_path_dirname(fast_start_output_path)
              = os_path_dirname(original_rendered_file)
       /\ ~HasSeparator(custom_suffix)
       /\ FromLastDot(CompanionName) = FromLastDot(SourceName)

\* C20 holds with the extension as os.path.splitext gives it: the text of the
\* source's basename from its last '.', and empty when the basename has no
\* '.' or only '.' characters precede its last '.'.  The companion lies in the
\* source's directory, the suffix holds no path separator, and the text after
\* the suffix is that extension.
C20_CompanionPath ==
    fast_start_output_path # <<>>
    => /\ fast_start_output_path =
              os_path_join(os_path_dirname(original_rendered_file),
                           AmendedStem(SourceName) \o custom_suffix
                               \o AmendedExtension(SourceName))
       /\ os_path_dirname(fast_start_output_path)
              = os_path_dirname(original_rendered_file)
       /\ ~HasSeparator(custom_suffix)
       /\ ~HasSeparator(CompanionName)
       /\ SubSeq(CompanionName, Len(CompanionName) - Len(AmendedExtension(SourceName)) + 1,
                 Len(CompanionName)) = AmendedExtension(SourceName)


(***************************************************************************)
(* C21: the result of run_qtfaststart_processing                           *)
(***************************************************************************)

DirectCallDone == processing_result # "not_called"

\* process was called and returned without raising.
ProcessReturned == process_calls # <<>> /\ process_raised = "None"

\* A regular file with content is at the output path.
OutputWritten ==
    output_path_str \in DOMAIN file_size /\ file_size[output_path_str] > 0

\* C21: run_qtfaststart_processing returns True exactly when process returned
\* without raising and the output file then exists with a size above 0; an
\* input that is missing or a directory, a failed import, and each exception
\* of process (FastStartSetupError, MalformedFileError,
\* UnsupportedFormatError, any other) give False, and nothing is raised to
\* the caller.
C21_SuccessIffProcessReturnedAndOutputWritten ==
    DirectCallDone =>
        /\ processing_result \in {"True", "False"}
        /\ processing_result = "True" <=> (ProcessReturned /\ OutputWritten)
        /\ ~os_path_exists(input_path_str) => processing_result = "False"
        /\ os_path_isdir(input_path_str) => processing_result = "False"
        /\ import_failure \in ImportFailures => processing_result = "False"
        /\ process_raised \in ProcessExceptions => processing_result = "False"

\* Reached: process raises something other than its three errors after
\* writing part of the output, and the call returns False.
C21_Witness ==
    /\ processing_result = "False"
    /\ process_calls = <<[input |-> ProcessSource, output |-> ProcessCompanion]>>
    /\ process_raised = "Exception"
    /\ OutputWritten

\* Reached: process returns after writing the output into a directory the
\* call created, and the call returns True.
C21_WitnessSuccess ==
    /\ processing_result = "True"
    /\ ProcessReturned
    /\ os_path_dirname(output_path_str) \in dirs \ {OutputDir}
    /\ OutputWritten


(***************************************************************************)
(* C22: a wrong extension after a '#' run                                  *)
(***************************************************************************)

\* The basename has an extension other than the container's, and a '#' in
\* the name part before it.
WrongExtAfterHashRun ==
    /\ LastDotPos(user_setting_basename) > 0
    /\ ~UserExtMatches(user_setting_basename, container_type)
    /\ HasHash(BeforeLastDot(user_setting_basename))

\* C22: with "File Extension" checked, a wrong user extension and a '#' run
\* in the name part before it, the rightmost run of the name part is
\* replaced by the frame token of the run's width, and the wrong extension
\* stays literally between the text after the run and the container's
\* extension ("TEST###.TXT", .mp4, frames 1-5: "TEST001-005.TXT.mp4").
C22_WrongExtKeptAfterFrameToken ==
    (Predicted /\ use_file_extension /\ WrongExtAfterHashRun)
    => /\ SplitsAtRightmostRun(BeforeLastDot(user_setting_basename),
                               FromLastDot(user_setting_basename))
       /\ plan.final_output_extension = CorrectExtension
       /\ NameIsAssembled
       /\ \E i \in 1..Len(frame_str_component) :
              /\ frame_str_component[i] = "-"
              /\ IsZeroPadded(SubSeq(frame_str_component, 1, i - 1), start_frame,
                              plan.frame_padding)
              /\ IsZeroPadded(SubSeq(frame_str_component, i + 1,
                                     Len(frame_str_component)),
                              end_frame, plan.frame_padding)

\* Reached: the documented example.
C22_Witness ==
    /\ Predicted
    /\ use_file_extension
    /\ container_type = "MPEG4"
    /\ start_frame = 1 /\ end_frame = 5
    /\ user_setting_basename = <<"T","E","S","T","#","#","#",".","T","X","T">>
    /\ predicted_blender_filename =
           <<"T","E","S","T","0","0","1","-","0","0","5",".","T","X","T",
             ".","m","p","4">>

\* Reached: the wrong extension holds a '#' run of its own, which stays.
C22_WitnessHashInExtension ==
    /\ Predicted
    /\ use_file_extension
    /\ start_frame = 1 /\ end_frame = 5
    /\ user_setting_basename = <<"t","#",".","#">>
    /\ predicted_blender_filename = <<"t","1","-","5",".","#">> \o CorrectExtension


(***************************************************************************)
(* C23: when process is called                                             *)
(***************************************************************************)

\* C23: in every state the calls of process of the current job are at most
\* one, and there is one only if the job was not rejected, the scene has
\* Fast Start enabled, renders FFMPEG into an MPEG4 or QUICKTIME container
\* without autosplit, and the handler located a source that is on disk and
\* is not a directory; the call is the handler's, on that source.
C23_ProcessCalledOnlyForApplicableLocatedJob ==
    /\ Len(process_calls) <= 1
    /\ process_calls # <<>> =>
           /\ ~render_job_cancelled_by_addon
           /\ use_faststart_prop
           /\ file_format = "FFMPEG"
           /\ container_type \in {"MPEG4", "QUICKTIME"}
           /\ ~use_autosplit
           /\ handler_state \in {"succeeded", "failed"}
           /\ original_rendered_file # <<>>
           /\ process_calls[1].input = original_rendered_file
           /\ os_path_exists(original_rendered_file)
           /\ ~os_path_isdir(original_rendered_file)

\* Reached: process is called in a job that follows a rejected one.
C23_Witness ==
    /\ process_calls # <<>>
    /\ cancelled_at_job_start
    /\ ~render_job_cancelled_by_addon
    /\ handler_state = "succeeded"

\* Reached: the predicted path is a directory, and process is not called.
C23_WitnessDirectory ==
    /\ handler_state = "not_found"
    /\ checked_paths = <<JobRenderedPath>>
    /\ JobRenderedPath \in dirs
    /\ process_calls = <<>>

=============================================================================
